---- MODULE Spec2Model ----
(***************************************************************************)
(* Model of the training cell of few_shot_classifier.ipynb: the fixed-     *)
(* epoch loop that trains a prototypical network, validates it, tracks the *)
(* best F1 / best recall / best_state, steps a MultiStepLR scheduler and   *)
(* finally loads best_state back into the model.                           *)
(*                                                                         *)
(* Parameter tensors live in a heap of storages.  model.state_dict()       *)
(* returns a dictionary of references to the module's parameter tensors    *)
(* (torch.nn.Module.state_dict detaches, it does not clone), so a state    *)
(* dict is modelled as a reference to a storage, read through Deref.       *)
(*                                                                         *)
(* Metrics are levels 0..MaxMetric standing for k/MaxMetric in [0,1].      *)
(* Learning rates are integers in units of 1e-5.                           *)
(***************************************************************************)
EXTENDS Integers, FiniteSets, Sequences, TLC

\* ---- bounds of the model ----
MaxParam == 1
MaxMetric == 2

\* ---- program constants ----
N_TASKS_PER_EPOCH == 10
N_VALIDATION_TASKS == 100
N_EPOCHS == 100
\* LEARNING_RATE = 0.001, in units of 1e-5
LEARNING_RATE == 100
\* scheduler_gamma = 0.1: multiplying by gamma divides by GammaInv
GammaInv == 10
scheduler_milestones == {70, 85}

\* value of recall / f1_score before the first evaluate_model call
Unset == -1

ParamValues == 0..MaxParam
Metrics == 0..MaxMetric

\* the storage holding the parameters of `model`
MODEL == "model_params"

VARIABLES
    pc,             \* position in the cell
    epoch,          \* loop variable of `for epoch in range(N_EPOCHS)`
    heap,           \* storage -> parameter value
    best_state,     \* state dict: a reference into the heap
    best_f1_score,
    best_recall,
    recall,         \* last value returned by evaluate_model
    f1_score,
    lr,             \* train_optimizer.param_groups[0]['lr']
    last_epoch,     \* train_scheduler.last_epoch
    lr_used,        \* learning rate read by the last training pass
    n_train,        \* training passes run
    n_train_tasks,  \* training episodes consumed
    n_val,          \* validation passes run
    n_val_tasks,    \* validation episodes consumed
    n_update,       \* best-tracking updates run
    n_sched,        \* train_scheduler.step() calls in the loop
    params_at_best, \* history: parameter values when best_state was last assigned
    f1_at_best,     \* history: f1_score of the epoch that last assigned best_state
    max_recall,     \* history: max(0, recall of every validation pass so far)
    max_f1,         \* history: max(0, f1 of every validation pass so far)
    exc,            \* an exception has been raised
    restored,       \* model.load_state_dict(best_state) has executed
    reported        \* the final best F1 / recall lines were printed

vars == <<pc, epoch, heap, best_state, best_f1_score, best_recall, recall,
          f1_score, lr, last_epoch, lr_used, n_train, n_train_tasks, n_val,
          n_val_tasks, n_update, n_sched, params_at_best, f1_at_best,
          max_recall, max_f1, exc, restored, reported>>

Max(a, b) == IF a >= b THEN a ELSE b

\* model.state_dict(): references to the live parameter tensors
state_dict(storage) == [storage |-> storage]

\* the parameter values a state dict currently shows
Deref(sd) == heap[sd.storage]

\* MultiStepLR.get_lr as evaluated inside step(), after last_epoch was advanced
get_lr_late(last, cur) == cur
get_lr(last, cur) ==
    IF last \in scheduler_milestones THEN cur \div GammaInv ELSE cur

\* range(N_EPOCHS): is there another iteration for loop value e
InRange_off(e) == e <= N_EPOCHS
InRange(e) == e < N_EPOCHS

\* learning rate the claim of the schedule expects in epoch e
ExpectedLr(e) ==
    IF e < 70 THEN LEARNING_RATE
    ELSE IF e < 85 THEN LEARNING_RATE \div GammaInv
    ELSE (LEARNING_RATE \div GammaInv) \div GammaInv

Init ==
    /\ pc = "train"
    /\ epoch = 0
    /\ \E p \in ParamValues :
          /\ heap = [s \in {MODEL} |-> p]
          /\ params_at_best = p
    /\ best_state = state_dict(MODEL)
    /\ best_f1_score = 0
    /\ best_recall = 0
    /\ recall = Unset
    /\ f1_score = Unset
    /\ lr = LEARNING_RATE
    /\ last_epoch = 0
    /\ lr_used = 0
    /\ n_train = 0
    /\ n_train_tasks = 0
    /\ n_val = 0
    /\ n_val_tasks = 0
    /\ n_update = 0
    /\ n_sched = 0
    /\ f1_at_best = Unset
    /\ max_recall = 0
    /\ max_f1 = 0
    /\ exc = FALSE
    /\ restored = FALSE
    /\ reported = FALSE

\* average_epoch_loss = training_epoch(model, train_loader, train_optimizer, LOSS_FN)
training_epoch ==
    /\ pc = "train"
    /\ \E p \in ParamValues : heap' = [heap EXCEPT ![MODEL] = p]
    /\ lr_used' = lr
    /\ n_train' = n_train + 1
    /\ n_train_tasks' = n_train_tasks + N_TASKS_PER_EPOCH
    /\ pc' = "validate"
    /\ UNCHANGED <<epoch, best_state, best_f1_score, best_recall, recall,
                   f1_score, lr, last_epoch, n_val, n_val_tasks, n_update,
                   n_sched, params_at_best, f1_at_best, max_recall, max_f1, exc, restored,
                   reported>>

\* ..., recall, _, f1_score = evaluate_model(model, validation_loader)
evaluate_model ==
    /\ pc = "validate"
    /\ \E r \in Metrics, f \in Metrics :
          /\ recall' = r
          /\ f1_score' = f
          /\ max_recall' = Max(max_recall, r)
          /\ max_f1' = Max(max_f1, f)
    /\ n_val' = n_val + 1
    /\ n_val_tasks' = n_val_tasks + N_VALIDATION_TASKS
    /\ pc' = "update"
    /\ UNCHANGED <<epoch, heap, best_state, best_f1_score, best_recall, lr,
                   last_epoch, lr_used, n_train, n_train_tasks, n_update,
                   n_sched, params_at_best, f1_at_best, exc, restored, reported>>

\* the two `if` statements tracking best_f1_score and best_recall / best_state
UpdateBest_nested ==
    /\ pc = "update"
    /\ IF recall > best_recall
         THEN /\ best_recall' = recall
              /\ best_state' = state_dict(MODEL)
              /\ params_at_best' = heap[MODEL]
              /\ f1_at_best' = f1_score
              /\ best_f1_score' = IF f1_score > best_f1_score
                                    THEN f1_score ELSE best_f1_score
         ELSE UNCHANGED <<best_recall, best_state, params_at_best, f1_at_best,
                         best_f1_score>>
    /\ n_update' = n_update + 1
    /\ pc' = "log"
    /\ UNCHANGED <<epoch, heap, recall, f1_score, lr, last_epoch, lr_used,
                   n_train, n_train_tasks, n_val, n_val_tasks, n_sched,
                   max_recall, max_f1, exc, restored, reported>>
UpdateBest ==
    /\ pc = "update"
    /\ best_f1_score' = IF f1_score > best_f1_score THEN f1_score ELSE best_f1_score
    /\ IF recall > best_recall
         THEN /\ best_recall' = recall
              /\ best_state' = state_dict(MODEL)
              /\ params_at_best' = heap[MODEL]
              /\ f1_at_best' = f1_score
         ELSE UNCHANGED <<best_recall, best_state, params_at_best, f1_at_best>>
    /\ n_update' = n_update + 1
    /\ pc' = "log"
    /\ UNCHANGED <<epoch, heap, recall, f1_score, lr, last_epoch, lr_used,
                   n_train, n_train_tasks, n_val, n_val_tasks, n_sched,
                   max_recall, max_f1, exc, restored, reported>>

\* the three tb_writer.add_scalar calls
LogScalars ==
    /\ pc = "log"
    /\ pc' = "sched"
    /\ UNCHANGED <<epoch, heap, best_state, best_f1_score, best_recall, recall,
                   f1_score, lr, last_epoch, lr_used, n_train, n_train_tasks,
                   n_val, n_val_tasks, n_update, n_sched, params_at_best, f1_at_best,
                   max_recall, max_f1, exc, restored, reported>>

\* train_scheduler.step(), then the loop head takes the next value of range(N_EPOCHS)
SchedulerStep ==
    /\ pc = "sched"
    /\ last_epoch' = last_epoch + 1
    /\ lr' = get_lr(last_epoch + 1, lr)
    /\ n_sched' = n_sched + 1
    /\ epoch' = epoch + 1
    /\ pc' = IF InRange(epoch + 1) THEN "train" ELSE "restore"
    /\ UNCHANGED <<heap, best_state, best_f1_score, best_recall, recall,
                   f1_score, lr_used, n_train, n_train_tasks, n_val,
                   n_val_tasks, n_update, params_at_best, f1_at_best, max_recall, max_f1,
                   exc, restored, reported>>

\* missing_keys, unexpected_keys = model.load_state_dict(best_state)
LoadBestState ==
    /\ pc = "restore"
    /\ heap' = [heap EXCEPT ![MODEL] = Deref(best_state)]
    /\ restored' = TRUE
    /\ pc' = "report"
    /\ UNCHANGED <<epoch, best_state, best_f1_score, best_recall, recall,
                   f1_score, lr, last_epoch, lr_used, n_train, n_train_tasks,
                   n_val, n_val_tasks, n_update, n_sched, params_at_best, f1_at_best,
                   max_recall, max_f1, exc, reported>>

\* the two final print statements
ReportBest ==
    /\ pc = "report"
    /\ reported' = TRUE
    /\ pc' = "done"
    /\ UNCHANGED <<epoch, heap, best_state, best_f1_score, best_recall, recall,
                   f1_score, lr, last_epoch, lr_used, n_train, n_train_tasks,
                   n_val, n_val_tasks, n_update, n_sched, params_at_best, f1_at_best,
                   max_recall, max_f1, exc, restored>>

\* positions whose statement calls into a framework and so may raise
RaisingPositions == {"train", "validate", "log", "sched", "restore"}

\* what an exception does: there is no try/except around any statement
Propagate_caught ==
    /\ exc' = TRUE
    /\ pc' = "restore"
Propagate ==
    /\ exc' = TRUE
    /\ pc' = "raised"

\* a framework call raises; a training pass may already have stepped the optimizer
Raise ==
    /\ pc \in RaisingPositions
    /\ Propagate
    /\ IF pc = "train"
         THEN \E p \in ParamValues : heap' = [heap EXCEPT ![MODEL] = p]
         ELSE UNCHANGED heap
    /\ UNCHANGED <<epoch, best_state, best_f1_score, best_recall, recall,
                   f1_score, lr, last_epoch, lr_used, n_train, n_train_tasks,
                   n_val, n_val_tasks, n_update, n_sched, params_at_best, f1_at_best,
                   max_recall, max_f1, restored, reported>>

Next ==
    \/ training_epoch
    \/ evaluate_model
    \/ UpdateBest
    \/ LogScalars
    \/ SchedulerStep
    \/ LoadBestState
    \/ ReportBest
    \/ Raise

Spec == Init /\ [][Next]_vars

\* positions between the best-tracking update of an epoch and its scheduler step
EndOfEpoch == {"log", "sched"}

\* C1: at the end of every epoch in which some recall has beaten 0.0, best_state
\* shows the parameters as they were at the validation pass of the epoch with
\* the highest recall so far.
BestStateHoldsBestEpochParams ==
    (pc \in EndOfEpoch /\ best_recall > 0) => Deref(best_state) = params_at_best

\* C2: once the loop has run and load_state_dict(best_state) has executed, the
\* live parameters are those captured at the last epoch whose recall beat the
\* running best.
RestoredParamsAreSnapshot ==
    (restored /\ n_sched = N_EPOCHS /\ max_recall > 0) => heap[MODEL] = params_at_best

\* C3: the training pass of epoch e reads LEARNING_RATE for e in 0..69,
\* LEARNING_RATE*gamma for e in 70..84 and LEARNING_RATE*gamma^2 for e in 85..99.
LrDropsAtMilestones ==
    /\ pc = "train" => lr = ExpectedLr(epoch)
    /\ pc = "validate" => lr_used = ExpectedLr(epoch)

LrDroppedTwice ==
    pc = "validate" /\ epoch = 85 /\ lr_used = 1

\* C4: each epoch runs one training pass, then one validation pass, then the
\* best-tracking update, then one scheduler step, every pass over its configured
\* number of episodes; the restore happens only after N_EPOCHS complete epochs.
EpochStepsInOrder ==
    /\ n_train_tasks = n_train * N_TASKS_PER_EPOCH
    /\ n_val_tasks = n_val * N_VALIDATION_TASKS
    /\ pc = "train" =>
          n_train = epoch /\ n_val = epoch /\ n_update = epoch /\ n_sched = epoch
    /\ pc = "validate" =>
          n_train = epoch + 1 /\ n_val = epoch /\ n_update = epoch /\ n_sched = epoch
    /\ pc = "update" =>
          n_train = epoch + 1 /\ n_val = epoch + 1 /\ n_update = epoch /\ n_sched = epoch
    /\ pc \in EndOfEpoch =>
          n_train = epoch + 1 /\ n_val = epoch + 1 /\ n_update = epoch + 1 /\ n_sched = epoch
    /\ pc \in {"train", "validate", "update", "log", "sched"} => epoch < N_EPOCHS
    /\ (pc = "restore" \/ restored) =>
          /\ n_train = N_EPOCHS
          /\ n_val = N_EPOCHS
          /\ n_update = N_EPOCHS
          /\ n_sched = N_EPOCHS

AllEpochsDoneAndRestored ==
    pc = "done" /\ restored /\ n_sched = N_EPOCHS /\ n_train_tasks = N_EPOCHS * N_TASKS_PER_EPOCH

\* C6: in the update of an epoch, best_state becomes that epoch's parameters when
\* its recall is strictly greater than the running best; otherwise (ties
\* included) best_recall is kept and best_state still shows the parameters of
\* the earlier epoch that set it, whatever happens to best_f1_score.
BestStateReplacedOnlyOnRecall ==
    [][pc = "update" =>
          /\ f1_score > best_f1_score => best_f1_score' = f1_score
          /\ IF recall > best_recall
               THEN best_recall' = recall /\ Deref(best_state)' = heap[MODEL]
               ELSE best_recall' = best_recall /\ Deref(best_state)' = params_at_best]_vars

\* C7: a training pass leaves the contents of best_state unchanged.
TrainingLeavesBestStateAlone ==
    [][pc = "train" => Deref(best_state)' = Deref(best_state)]_vars

\* C8: once a framework call has raised, the run has stopped: nothing is
\* executed after it, the best state is not loaded and nothing is reported.
ExceptionTerminatesRun ==
    /\ [](exc => (pc = "raised" /\ ~restored /\ ~reported))
    /\ [][pc = "raised" => UNCHANGED vars]_vars

RaisedMidRun ==
    exc /\ pc = "raised" /\ epoch > 0 /\ n_train = epoch + 1 /\ n_val = epoch

\* C9: best_f1_score and best_recall never decrease, and after the update of
\* epoch k each equals the maximum of 0.0 and its metric over epochs 0..k.
BestMetricsAreRunningMaxima ==
    /\ [](pc # "update" => (best_recall = max_recall /\ best_f1_score = max_f1))
    /\ [][best_recall' >= best_recall /\ best_f1_score' >= best_f1_score]_vars

\* the reported best F1 is not the F1 of the epoch whose parameters were kept
ReportedF1FromOtherEpoch ==
    pc = "done" /\ best_recall > 0 /\ best_f1_score > f1_at_best

\* C10: if no recall ever beats 0.0, the restore leaves the live model with the
\* parameters captured before the first epoch, and best recall is 0.0.
NoImprovementRestoresInitial ==
    (restored /\ max_recall = 0) => (heap[MODEL] = params_at_best /\ best_recall = 0)

====
